---- MODULE Spec2Model ----
(***************************************************************************)
(* A model of plainsong.py: the SongParser line state machine, the chord  *)
(* recognizer and tokenizer, and the script's top level.                  *)
(*                                                                         *)
(* A Python str is modelled as a sequence of one-character strings, so    *)
(* "C G" is <<"C", " ", "G">>.  Positions reported by the program are     *)
(* zero-based, as in the source; sequence indices here are one-based.     *)
(***************************************************************************)
EXTENDS Integers, Sequences, FiniteSets, TLC

VARIABLES
    file,         \* the raw lines the for loop of parse has read so far
    pc,           \* position in the script: "loop", "parsed", "done"
    state,        \* SongParser.state
    song,         \* SongParser.song (None or a Song)
    part,         \* SongParser.part
    last_chords,  \* SongParser.last_chords
    outcome,      \* how the script ended: "running", "written", "AttributeError"
    fed,          \* the arguments of the calls of parse_line so far, in order
    call,         \* a call of one of the functions on its own: its name and argument
    ret           \* what that call returned, once it has

vars == <<file, pc, state, song, part, last_chords, outcome, fed, call, ret>>

----------------------------------------------------------------------------
(* Strings *)

NL == "\n"

\* The characters str.strip() and the regex class \s treat as whitespace.
Whitespace == {" ", "\t", "\n", "\r", "\f"}

IsBlank(s) == \A i \in 1..Len(s) : s[i] \in Whitespace

\* s[a:b] of Python for 0 <= a, on a sequence (a, b zero-based, b exclusive).
Slice(s, a, b) == SubSeq(s, a + 1, IF b > Len(s) THEN Len(s) ELSE b)

\* Number of leading whitespace characters of s.
LeadingWs(s) ==
    IF IsBlank(s) THEN Len(s)
    ELSE (CHOOSE i \in 1..Len(s) :
            s[i] \notin Whitespace /\ \A j \in 1..(i - 1) : s[j] \in Whitespace) - 1

\* Number of trailing whitespace characters of s.
TrailingWs(s) ==
    IF IsBlank(s) THEN Len(s)
    ELSE Len(s) - (CHOOSE i \in 1..Len(s) :
            s[i] \notin Whitespace /\ \A j \in (i + 1)..Len(s) : s[j] \in Whitespace)

\* strip as if it were lstrip.
strip_leading_only(s) ==
    IF IsBlank(s) THEN <<>>
    ELSE Slice(s, LeadingWs(s), Len(s))

\* str.strip()
strip(s) ==
    IF IsBlank(s) THEN <<>>
    ELSE Slice(s, LeadingWs(s), Len(s) - TrailingWs(s))

\* line[:-1]
DropLast(s) == IF Len(s) = 0 THEN <<>> ELSE SubSeq(s, 1, Len(s) - 1)

\* The regex atom "." : any character but a newline.
NoNewline(s) == \A i \in 1..Len(s) : s[i] # NL

----------------------------------------------------------------------------
(* CHORD_REGEX, as the set of offsets a match can reach *)

Roots == {<<"C">>, <<"D">>, <<"E">>, <<"F">>, <<"G">>, <<"A">>, <<"B">>}

Accidentals == {<<"b">>, <<"#">>}

Qualities ==
    {<<"m">>, <<"M">>, <<"m", "i", "n">>, <<"m", "a", "j">>, <<"d", "i", "m">>,
     <<"Δ">>, <<"°">>, <<"ø">>, <<"Ø">>}

SusAdd == {<<"s", "u", "s">>, <<"a", "d", "d">>}

Intervals ==
    {<<"2">>, <<"4">>, <<"5">>, <<"6">>, <<"7">>, <<"9">>,
     <<"1", "0">>, <<"1", "1">>, <<"1", "3">>}

Suffixes == {<<"+">>, <<"a", "u", "g">>, <<"a", "l", "t">>}

Slash == {<<"/">>}

\* The offsets reached from an offset of I by matching one of the literals.
Alt(s, I, lits) ==
    {q[1] + Len(q[2]) :
        q \in {r \in I \X lits : Slice(s, r[1], r[1] + Len(r[2])) = r[2]}}

\* (lit1|lit2|...)?
Opt(s, I, lits) == I \cup Alt(s, I, lits)

\* One round of the group ((sus|add)?(b|#)?(2|4|...|13)?)
ExtensionGroup(s, I) == Opt(s, Opt(s, Opt(s, I, SusAdd), Accidentals), Intervals)

\* ((sus|add)?(b|#)?(2|4|...|13)?)*
RECURSIVE ExtensionStar(_, _)
ExtensionStar(s, I) ==
    LET J == I \cup ExtensionGroup(s, I)
    IN  IF J = I THEN I ELSE ExtensionStar(s, J)

\* (\/(C|D|E|F|G|A|B)(b|#)?)?
SlashBass(s, I) == I \cup Opt(s, Alt(s, Alt(s, I, Slash), Roots), Accidentals)

\* The offsets at which a match of the pattern between ^ and $ can end.
ChordEnds(s) ==
    SlashBass(s,
        Opt(s,
            ExtensionStar(s,
                Opt(s, Opt(s, Alt(s, {0}, Roots), Accidentals), Qualities)),
            Suffixes))

\* MatchesChord as if the pattern did not end in $.
MatchesChord_unanchored(word) == ChordEnds(word) # {}

\* re.match(CHORD_REGEX, word) is not None; $ also matches before a final newline.
MatchesChord(word) ==
    \/ Len(word) \in ChordEnds(word)
    \/ /\ Len(word) > 0
       /\ word[Len(word)] = NL
       /\ (Len(word) - 1) \in ChordEnds(word)

----------------------------------------------------------------------------
(* Data model *)

SongChord(name, pos) == [name |-> name, pos |-> pos]

SongLine(text, chords) == [text |-> text, chords |-> chords]

\* SongPart(): a part with no name and no lines.
SongPart == [name |-> <<>>, lines |-> <<>>]

\* is_empty as if only the lines counted.
is_empty_lines_only(p) ==
    IF p.lines # <<>> THEN FALSE
    ELSE TRUE

is_empty(p) ==
    IF p.name # <<>> THEN FALSE
    ELSE IF p.lines # <<>> THEN FALSE
    ELSE TRUE

\* Song(title).  metadata is a dict: a function from its keys to their values.
Song(title) == [title |-> title, metadata |-> <<>>, parts |-> <<>>]

\* The value of SongParser.song before a Song is constructed.
None == [none |-> TRUE]

\* d[key] = value on a dict.
DictSet(d, key, value) ==
    [k \in (DOMAIN d) \cup {key} |-> IF k = key THEN value ELSE d[k]]

----------------------------------------------------------------------------
(* Chord tokenizer *)

\* line.split(' ')
RECURSIVE split(_)
split(line) ==
    IF \A i \in 1..Len(line) : line[i] # " " THEN <<line>>
    ELSE LET i == CHOOSE j \in 1..Len(line) :
                    line[j] = " " /\ \A k \in 1..(j - 1) : line[k] # " "
         IN  <<SubSeq(line, 1, i - 1)>> \o split(SubSeq(line, i + 1, Len(line)))

\* is_chord_line as if the empty words of the split were not skipped.
is_chord_line_counts_empty_words(line) ==
    LET words == split(line)
    IN  \A i \in 1..Len(words) : MatchesChord(words[i])

is_chord_line(line) ==
    LET words == split(line)
    IN  \A i \in 1..Len(words) : words[i] = <<>> \/ MatchesChord(words[i])

\* The for loop of parse_chords from offset pos on, and the statements after it.
RECURSIVE ParseChordsLoop(_, _, _, _, _)
ParseChordsLoop(line, pos, start, chord, chords) ==
    IF pos = Len(line)
    THEN IF chord # <<>> THEN Append(chords, SongChord(chord, start)) ELSE chords
    ELSE LET char == line[pos + 1]
         IN  IF char = " "
             THEN IF chord # <<>>
                  THEN ParseChordsLoop(line, pos + 1, start, <<>>,
                                       Append(chords, SongChord(chord, start)))
                  ELSE ParseChordsLoop(line, pos + 1, start, chord, chords)
             ELSE ParseChordsLoop(line, pos + 1,
                                  IF chord = <<>> THEN pos ELSE start,
                                  Append(chord, char), chords)

\* parse_chords as if columns were counted from one.
parse_chords_from_one(line) ==
    LET chords == ParseChordsLoop(line, 0, 0, <<>>, <<>>)
    IN  [i \in 1..Len(chords) |-> SongChord(chords[i].name, chords[i].pos + 1)]

parse_chords(line) == ParseChordsLoop(line, 0, 0, <<>>, <<>>)

----------------------------------------------------------------------------
(* LaTeX rendering of a line *)

\* ' ' * n
Spaces(n) == [i \in 1..n |-> " "]

\* f'\\[{chord.name}]'
Marker(name) == <<"\\", "[">> \o name \o <<"]">>

\* chords.sort(key=lambda chord: chord.pos, reverse=True): by descending pos,
\* chords of equal pos in their original order.
RECURSIVE SortedByPosReversed(_)
SortedByPosReversed(chords) ==
    IF chords = <<>> THEN <<>>
    ELSE LET i == CHOOSE k \in 1..Len(chords) :
                    \A j \in 1..Len(chords) :
                        \/ chords[j].pos < chords[k].pos
                        \/ chords[j].pos = chords[k].pos /\ k <= j
         IN  <<chords[i]>>
                \o SortedByPosReversed(SubSeq(chords, 1, i - 1)
                                         \o SubSeq(chords, i + 1, Len(chords)))

\* The for loop of SongLine.to_latex over the chords left to insert.
RECURSIVE InsertMarkers(_, _)
InsertMarkers(out, chords) ==
    IF chords = <<>> THEN out
    ELSE LET chord == Head(chords)
         IN  InsertMarkers(Slice(out, 0, chord.pos) \o Marker(chord.name)
                              \o Slice(out, chord.pos, Len(out)),
                           Tail(chords))

NoLyricsOpen == <<"\\", "n", "o", "l", "y", "r", "i", "c", "s", "{">>

\* SongLine.to_latex as if the chords were inserted in the order of the list.
SongLine_to_latex_in_list_order(l) ==
    IF l.chords = <<>> THEN l.text \o <<NL>>
    ELSE LET chords == l.chords
             diff   == chords[1].pos - Len(l.text)
             padded == IF diff > 0 THEN l.text \o Spaces(diff) ELSE l.text
             out    == InsertMarkers(padded, chords)
         IN  IF l.text = <<>>
             THEN NoLyricsOpen \o out \o <<"}", NL>>
             ELSE out \o <<NL>>

\* SongLine.to_latex
SongLine_to_latex(l) ==
    IF l.chords = <<>> THEN l.text \o <<NL>>
    ELSE LET chords == SortedByPosReversed(l.chords)
             diff   == chords[1].pos - Len(l.text)
             padded == IF diff > 0 THEN l.text \o Spaces(diff) ELSE l.text
             out    == InsertMarkers(padded, chords)
         IN  IF l.text = <<>>
             THEN NoLyricsOpen \o out \o <<"}", NL>>
             ELSE out \o <<NL>>

----------------------------------------------------------------------------
(* LaTeX rendering of a part *)

UpperCase == <<"A", "B", "C", "D", "E", "F", "G", "H", "I", "J", "K", "L", "M", "N", "O", "P", "Q", "R", "S", "T", "U", "V", "W", "X", "Y", "Z">>
LowerCase == <<"a", "b", "c", "d", "e", "f", "g", "h", "i", "j", "k", "l", "m", "n", "o", "p", "q", "r", "s", "t", "u", "v", "w", "x", "y", "z">>

\* str.lower, on the letters of ASCII
Lower(str) ==
    [i \in 1..Len(str) |->
        IF \E k \in 1..Len(UpperCase) : UpperCase[k] = str[i]
        THEN LowerCase[CHOOSE k \in 1..Len(UpperCase) : UpperCase[k] = str[i]]
        ELSE str[i]]

\* \d
Digits == {"0", "1", "2", "3", "4", "5", "6", "7", "8", "9"}

VersePrefix == <<"v", "e", "r", "s", "e", " ">>

\* re.match('verse \d+', lower_name): the pattern matches at the start of the
\* name, whatever follows the first digit.
MatchesVerse(lower_name) ==
    /\ Len(lower_name) > Len(VersePrefix)
    /\ SubSeq(lower_name, 1, Len(VersePrefix)) = VersePrefix
    /\ lower_name[Len(VersePrefix) + 1] \in Digits

BeginChorus == <<"\\", "b", "e", "g", "i", "n", "c", "h", "o", "r", "u", "s", "\n">>
EndChorus == <<"\\", "e", "n", "d", "c", "h", "o", "r", "u", "s", "\n">>
BeginVerse == <<"\\", "b", "e", "g", "i", "n", "v", "e", "r", "s", "e", "\n">>
EndVerse == <<"\\", "e", "n", "d", "v", "e", "r", "s", "e", "\n">>
BeginVerseStar == <<"\\", "b", "e", "g", "i", "n", "v", "e", "r", "s", "e", "*", "\n">>

\* f'\t\\textbf{{{self.name}:}}\n'
NameLabel(name) == <<"\t", "\\", "t", "e", "x", "t", "b", "f", "{">> \o name \o <<":", "}", "\n">>

\* The for loop of SongPart.to_latex: '\t' + line.to_latex() for each line.
RECURSIVE LinesToLatex(_)
LinesToLatex(lines) ==
    IF lines = <<>> THEN <<>>
    ELSE <<"\t">> \o SongLine_to_latex(Head(lines)) \o LinesToLatex(Tail(lines))

\* SongPart.to_latex
SongPart_to_latex(p) ==
    LET lower_name == Lower(p.name)
    IN  IF Lower(lower_name) = <<"c", "h", "o", "r", "u", "s">>
        THEN BeginChorus \o LinesToLatex(p.lines) \o EndChorus
        ELSE IF MatchesVerse(lower_name)
        THEN BeginVerse \o LinesToLatex(p.lines) \o EndVerse
        ELSE BeginVerseStar \o NameLabel(p.name) \o LinesToLatex(p.lines) \o EndVerse

----------------------------------------------------------------------------
(* The two regular expressions of the parser *)

\* $ at offset h of line: the end, or just before a final newline.
AtDollar(line, h) ==
    \/ h = Len(line)
    \/ h = Len(line) - 1 /\ line[Len(line)] = NL

\* \s*$ from offset f of line.
WsThenDollar(line, f) ==
    \E h \in f..Len(line) : IsBlank(Slice(line, f, h)) /\ AtDollar(line, h)

\* The order in which a backtracking matcher tries greedy quantifiers:
\* longer first, earlier quantifiers decided first.
LexGreater(c, d) ==
    \E i \in 1..Len(c) : c[i] > d[i] /\ \A j \in 1..(i - 1) : c[j] = d[j]

Greediest(C) == CHOOSE c \in C : \A d \in C \ {c} : LexGreater(c, d)

\* The ways '^\s*(.*): (.*)\s*$' matches line: <<k, e, f>> with \s* = line[0:k],
\* group 1 = line[k:e], ': ' = line[e:e+2], group 2 = line[e+2:f].
MetadataMatches(line) ==
    LET n == Len(line)
    IN  {c \in (0..n) \X (0..n) \X (0..n) :
            /\ IsBlank(Slice(line, 0, c[1]))
            /\ c[1] <= c[2]
            /\ NoNewline(Slice(line, c[1], c[2]))
            /\ c[2] + 2 <= n
            /\ line[c[2] + 1] = ":"
            /\ line[c[2] + 2] = " "
            /\ c[2] + 2 <= c[3]
            /\ NoNewline(Slice(line, c[2] + 2, c[3]))
            /\ WsThenDollar(line, c[3])}

\* The ways '^\s*(.*):$' matches line: <<k, e>> with \s* = line[0:k],
\* group 1 = line[k:e], ':' = line[e:e+1].
PartNameMatches(line) ==
    LET n == Len(line)
    IN  {c \in (0..n) \X (0..n) :
            /\ IsBlank(Slice(line, 0, c[1]))
            /\ c[1] <= c[2]
            /\ NoNewline(Slice(line, c[1], c[2]))
            /\ c[2] + 1 <= n
            /\ line[c[2] + 1] = ":"
            /\ AtDollar(line, c[2] + 1)}

----------------------------------------------------------------------------
(* SongParser.  Its fields are gathered in a record p: state, song, part,   *)
(* last_chords.  The lists of the program are only ever rebound or          *)
(* appended to through part.lines, so values stand for the objects.         *)

parse_metadata_matches(line) == MetadataMatches(line) # {}

\* parse_metadata when the line matches: self.song.metadata[identifier] = value
parse_metadata(p, line) ==
    LET m          == Greediest(MetadataMatches(line))
        identifier == Slice(line, m[1], m[2])
        value      == Slice(line, m[2] + 2, m[3])
    IN  [p EXCEPT !.song.metadata = DictSet(@, identifier, value)]

\* The first branch of parse_part: the line names the (empty) current part.
TakenAsPartName(p, line) == is_empty(p.part) /\ PartNameMatches(line) # {}

\* parse_part as if a lyric line left last_chords as it was.
parse_part_keeps_chords(p, line) ==
    IF TakenAsPartName(p, line)
    THEN LET m == Greediest(PartNameMatches(line))
         IN  [p EXCEPT !.part.name = Slice(line, m[1], m[2])]
    ELSE IF is_chord_line(line)
    THEN LET chords == parse_chords(line)
         IN  [p EXCEPT
                !.part.lines = IF p.last_chords # <<>>
                               THEN Append(@, SongLine(<<>>, p.last_chords))
                               ELSE @,
                !.last_chords = chords]
    ELSE [p EXCEPT !.part.lines = Append(@, SongLine(line, p.last_chords))]

\* parse_part as if a chord line replaced last_chords without first putting
\* the chords already pending on a line of their own.
parse_part_overwrites_chords(p, line) ==
    IF TakenAsPartName(p, line)
    THEN LET m == Greediest(PartNameMatches(line))
         IN  [p EXCEPT !.part.name = Slice(line, m[1], m[2])]
    ELSE IF is_chord_line(line)
    THEN [p EXCEPT !.last_chords = parse_chords(line)]
    ELSE [p EXCEPT
            !.part.lines = Append(@, SongLine(line, p.last_chords)),
            !.last_chords = <<>>]

\* parse_part as if a chord line always put the pending chords on a line of
\* their own, pending or not.
parse_part_always_pushes_pending(p, line) ==
    IF TakenAsPartName(p, line)
    THEN LET m == Greediest(PartNameMatches(line))
         IN  [p EXCEPT !.part.name = Slice(line, m[1], m[2])]
    ELSE IF is_chord_line(line)
    THEN LET chords == parse_chords(line)
         IN  [p EXCEPT
                !.part.lines = Append(@, SongLine(<<>>, p.last_chords)),
                !.last_chords = chords]
    ELSE [p EXCEPT
            !.part.lines = Append(@, SongLine(line, p.last_chords)),
            !.last_chords = <<>>]

parse_part(p, line) ==
    IF TakenAsPartName(p, line)
    THEN LET m == Greediest(PartNameMatches(line))
         IN  [p EXCEPT !.part.name = Slice(line, m[1], m[2])]
    ELSE IF is_chord_line(line)
    THEN LET chords == parse_chords(line)
         IN  [p EXCEPT
                !.part.lines = IF p.last_chords # <<>>
                               THEN Append(@, SongLine(<<>>, p.last_chords))
                               ELSE @,
                !.last_chords = chords]
    ELSE [p EXCEPT
            !.part.lines = Append(@, SongLine(line, p.last_chords)),
            !.last_chords = <<>>]

\* PushPart as if a part boundary sent the parser back to DEFINITION.
PushPart_back_to_definition(p) ==
    IF ~is_empty(p.part)
    THEN LET lines == IF p.last_chords # <<>>
                      THEN Append(p.part.lines, SongLine(<<>>, p.last_chords))
                      ELSE p.part.lines
             done  == [p.part EXCEPT !.lines = lines]
         IN  [p EXCEPT
                !.state = "DEFINITION",
                !.last_chords = IF p.last_chords # <<>> THEN <<>> ELSE @,
                !.song.parts = Append(@, done),
                !.part = SongPart]
    ELSE p

\* PushPart as if the is_empty test were missing.
PushPart_unconditional(p) ==
    LET lines == IF p.last_chords # <<>>
                 THEN Append(p.part.lines, SongLine(<<>>, p.last_chords))
                 ELSE p.part.lines
        done  == [p.part EXCEPT !.lines = lines]
    IN  [p EXCEPT
           !.last_chords = IF p.last_chords # <<>> THEN <<>> ELSE @,
           !.song.parts = Append(@, done),
           !.part = SongPart]

\* PushPart as if the part were put in front of Song.parts.
PushPart_in_front(p) ==
    IF ~is_empty(p.part)
    THEN LET lines == IF p.last_chords # <<>>
                      THEN Append(p.part.lines, SongLine(<<>>, p.last_chords))
                      ELSE p.part.lines
             done  == [p.part EXCEPT !.lines = lines]
         IN  [p EXCEPT
                !.last_chords = IF p.last_chords # <<>> THEN <<>> ELSE @,
                !.song.parts = <<done>> \o @,
                !.part = SongPart]
    ELSE p

\* The blank-line branch of parse_line in BODY.
PushPart(p) ==
    IF ~is_empty(p.part)
    THEN LET lines == IF p.last_chords # <<>>
                      THEN Append(p.part.lines, SongLine(<<>>, p.last_chords))
                      ELSE p.part.lines
             done  == [p.part EXCEPT !.lines = lines]
         IN  [p EXCEPT
                !.last_chords = IF p.last_chords # <<>> THEN <<>> ELSE @,
                !.song.parts = Append(@, done),
                !.part = SongPart]
    ELSE p

\* parse_line as if the line that ends the metadata only switched the state.
parse_line_drops_first_body_line(p, line) ==
    LET stripped_line == strip(line)
    IN  CASE p.state = "START" ->
                IF stripped_line = <<>> THEN p
                ELSE [p EXCEPT !.song = Song(stripped_line), !.state = "DEFINITION"]
          [] p.state = "DEFINITION" ->
                IF stripped_line = <<>> THEN p
                ELSE IF ~parse_metadata_matches(line)
                THEN [p EXCEPT !.state = "BODY"]
                ELSE parse_metadata(p, line)
          [] p.state = "BODY" ->
                IF stripped_line = <<>> THEN PushPart(p)
                ELSE parse_part(p, line)

parse_line(p, line) ==
    LET stripped_line == strip(line)
    IN  CASE p.state = "START" ->
                IF stripped_line = <<>> THEN p
                ELSE [p EXCEPT !.song = Song(stripped_line), !.state = "DEFINITION"]
          [] p.state = "DEFINITION" ->
                IF stripped_line = <<>> THEN p
                ELSE IF ~parse_metadata_matches(line)
                THEN parse_part([p EXCEPT !.state = "BODY"], line)
                ELSE parse_metadata(p, line)
          [] p.state = "BODY" ->
                IF stripped_line = <<>> THEN PushPart(p)
                ELSE parse_part(p, line)

----------------------------------------------------------------------------
(* The script: parser = SongParser(); parser.parse(args.input); output *)

\* The longest input file, in lines.
MaxLines == 4

\* The line contents the input file is drawn from.
Contents ==
    {<<>>,                                  \* ""
     <<" ">>,                               \* " "
     <<" ", "T", "\t">>,                    \* " T\t"
     <<"a", ":", " ", "b", " ">>,           \* "a: b "
     <<" ", "V", ":">>,                     \* " V:"
     <<"V", ":", " ">>,                     \* "V: "
     <<"C", " ", " ", "G">>,                \* "C  G"
     <<" ", "A", "m">>,                     \* " Am"
     <<":">>,                               \* ":"
     <<"C", " ", "y", "o">>}                \* "C yo"

\* A line as iterating the file yields it: with its terminator, or, for the
\* last line of a file that does not end in a newline, without one.
Terminated(raw) == raw # <<>> /\ raw[Len(raw)] = NL

RawLines == {c \o <<NL>> : c \in Contents} \cup (Contents \ {<<>>})

Parser == [state |-> state, song |-> song, part |-> part, last_chords |-> last_chords]

SetParser(q) ==
    /\ state' = q.state
    /\ song' = q.song
    /\ part' = q.part
    /\ last_chords' = q.last_chords

\* No function is called on its own in a run of the script.
NoCall == [fn |-> "none"]

NotReturned == [done |-> FALSE]

Returned(value) == [done |-> TRUE, value |-> value]

\* SongParser.__init__ and the script before parser.parse reads a line.
Init ==
    /\ file = <<>>
    /\ pc = "loop"
    /\ state = "START"
    /\ song = None
    /\ part = SongPart
    /\ last_chords = <<>>
    /\ outcome = "running"
    /\ fed = <<>>
    /\ call = NoCall
    /\ ret = NotReturned

\* One iteration of the for loop of parse: self.parse_line(line[:-1])
ParseNext(raw) ==
    /\ pc = "loop"
    /\ Len(file) < MaxLines
    /\ IF file = <<>> THEN TRUE ELSE Terminated(file[Len(file)])
    /\ file' = Append(file, raw)
    /\ SetParser(parse_line(Parser, DropLast(raw)))
    /\ fed' = Append(fed, DropLast(raw))
    /\ UNCHANGED <<pc, outcome, call, ret>>

\* The end of the file: self.parse_line('')
ParseEnd ==
    /\ pc = "loop"
    /\ SetParser(parse_line(Parser, <<>>))
    /\ pc' = "parsed"
    /\ fed' = Append(fed, <<>>)
    /\ UNCHANGED <<file, outcome, call, ret>>

\* args.output.write(parser.song.to_latex()) or ...to_json(): an attribute
\* access on parser.song, which raises AttributeError when it is None.
WriteOutput ==
    /\ pc = "parsed"
    /\ pc' = "done"
    /\ outcome' = IF song = None THEN "AttributeError" ELSE "written"
    /\ UNCHANGED <<file, state, song, part, last_chords, fed, call, ret>>

Next ==
    \/ \E raw \in RawLines : ParseNext(raw)
    \/ ParseEnd
    \/ WriteOutput

Spec == Init /\ [][Next]_vars

----------------------------------------------------------------------------
(* The functions called on their own: one call, from its argument to its   *)
(* return value.                                                            *)

\* All sequences over alphabet of length at most n.
SeqsUpTo(alphabet, n) == UNION {[1..k -> alphabet] : k \in 0..n}

\* The longest token, line and lyric text a call is given.
MaxTokenLen == 3

ValidExamples ==
    {<<"C">>,
     <<"A", "m">>,
     <<"G", "#", "s", "u", "s", "4">>,
     <<"D", "/", "F", "#">>,
     <<"B", "b", "m", "a", "j", "7">>,
     <<"E", "a", "u", "g">>}

InvalidExamples ==
    {<<>>,
     <<"H">>,
     <<"C", "x">>,
     <<"1", "2", "3">>,
     <<"C", "#", "#">>}

TokenAlphabet == {"C", "#", "m", "7", "/", "x"}

CallTokens ==
    SeqsUpTo(TokenAlphabet, MaxTokenLen) \cup ValidExamples \cup InvalidExamples

MaxLineLen == 4

LineAlphabet == {" ", "\t", "C", "m", "x"}

CallLines == SeqsUpTo(LineAlphabet, MaxLineLen)

MaxTextLen == 3

TextAlphabet == {"a", " "}

\* The texts a SongLine can have: a non-blank line, or '' on a chord-only line.
CallTexts == {txt \in SeqsUpTo(TextAlphabet, MaxTextLen) : txt = <<>> \/ ~IsBlank(txt)}

\* The chords a SongLine can have: what parse_chords returns for a chord line.
CallChords == {parse_chords(l) : l \in {k \in CallLines : is_chord_line(k)}}

CallSongLines ==
    {SongLine(c[1], c[2]) : c \in CallTexts \X CallChords} \ {SongLine(<<>>, <<>>)}

\* The names a part can have: '' or what stands before the colon of a name line.
CallNames == {
    <<>>,
    <<"c", "h", "o", "r", "u", "s">>,
    <<"C", "h", "o", "r", "u", "s">>,
    <<"C", "H", "O", "R", "U", "S">>,
    <<"c", "h", "o", "r", "u", "s", " ">>,
    <<"c", "h", "o", "r", "u", "s", " ", "1">>,
    <<"R", "e", "f", "r", "a", "i", "n">>,
    <<"V", "e", "r", "s", "e", " ", "1">>,
    <<"v", "e", "r", "s", "e", " ", "1", "2">>,
    <<"V", "E", "R", "S", "E", " ", "3">>,
    <<"v", "e", "r", "s", "e">>,
    <<"v", "e", "r", "s", "e", " ">>,
    <<"v", "e", "r", "s", "e", " ", "x">>,
    <<"V", "e", "r", "s", "e", " ", "1", "x">>,
    <<"V", "e", "r", "s", "e", " ", "2", " ", "b">>,
    <<"x", "v", "e", "r", "s", "e", " ", "1">>,
    <<"V", "e", "r", "s", "e", " ", " ", "1">>,
    <<"B", "r", "i", "d", "g", "e">> }

MaxPartLines == 2

\* The lines of a part: a lyric line, a chord-only line, a lyric line with a chord.
CallPartLines ==
    SeqsUpTo({SongLine(<<"a">>, <<>>),
              SongLine(<<>>, <<SongChord(<<"C">>, 1)>>),
              SongLine(<<"a">>, <<SongChord(<<"C">>, 0)>>)}, MaxPartLines)

\* The parts of a song: no part of Song.parts is empty.
CallParts == {p \in [name : CallNames, lines : CallPartLines] : ~is_empty(p)}

Calls ==
    [fn : {"MatchesChord"}, arg : CallTokens]
        \cup [fn : {"is_chord_line", "parse_chords"}, arg : CallLines]
        \cup [fn : {"SongLine.to_latex"}, arg : CallSongLines]
        \cup [fn : {"SongPart.to_latex"}, arg : CallParts]

\* A parser that is not running, and one call about to be made.
InitCalls ==
    /\ file = <<>>
    /\ pc = "loop"
    /\ state = "START"
    /\ song = None
    /\ part = SongPart
    /\ last_chords = <<>>
    /\ outcome = "running"
    /\ fed = <<>>
    /\ call \in Calls
    /\ ret = NotReturned

parserVars == <<file, pc, state, song, part, last_chords, outcome, fed>>

\* re.match(CHORD_REGEX, word) is not None
CallMatchesChord ==
    /\ call.fn = "MatchesChord"
    /\ ~ret.done
    /\ ret' = Returned(MatchesChord(call.arg))
    /\ UNCHANGED <<parserVars, call>>

CallIsChordLine ==
    /\ call.fn = "is_chord_line"
    /\ ~ret.done
    /\ ret' = Returned(is_chord_line(call.arg))
    /\ UNCHANGED <<parserVars, call>>

CallParseChords ==
    /\ call.fn = "parse_chords"
    /\ ~ret.done
    /\ ret' = Returned(parse_chords(call.arg))
    /\ UNCHANGED <<parserVars, call>>

CallSongLineToLatex ==
    /\ call.fn = "SongLine.to_latex"
    /\ ~ret.done
    /\ ret' = Returned(SongLine_to_latex(call.arg))
    /\ UNCHANGED <<parserVars, call>>

CallSongPartToLatex ==
    /\ call.fn = "SongPart.to_latex"
    /\ ~ret.done
    /\ ret' = Returned(SongPart_to_latex(call.arg))
    /\ UNCHANGED <<parserVars, call>>

NextCalls ==
    \/ CallMatchesChord
    \/ CallIsChordLine
    \/ CallParseChords
    \/ CallSongLineToLatex
    \/ CallSongPartToLatex

SpecCalls == InitCalls /\ [][NextCalls]_vars

----------------------------------------------------------------------------
(* Vocabulary of the properties *)

\* The i-th line given to parse_line by the for loop.
Fed(i) == DropLast(file[i])

NonBlankFed == {i \in 1..Len(file) : ~IsBlank(Fed(i))}

\* A step that calls parse_line, and the line it passes.
ParseStep == pc = "loop" /\ (file' # file \/ pc' = "parsed")

StepLine == IF file' # file THEN DropLast(file'[Len(file')]) ELSE <<>>

Rank(st) == CASE st = "START" -> 0 [] st = "DEFINITION" -> 1 [] st = "BODY" -> 2

\* C1: the parser state only moves forward START -> DEFINITION -> BODY, one
\* state at a time; it never returns to an earlier state, and BODY is kept
\* by every later line and by the final empty-string line.
C1_StateOnlyMovesForward ==
    [][/\ Rank(state') \in {Rank(state), Rank(state) + 1}
       /\ state = "BODY" => state' = "BODY"]_vars

\* A part has been committed in BODY, a further line read and the final
\* empty line fed.
C1_Witness ==
    /\ pc = "parsed"
    /\ state = "BODY"
    /\ Len(song.parts) >= 1
    /\ Len(file) >= 4

\* C2: after the final empty-string line, nothing is left pending: the
\* current part is empty and last_chords is empty.
C2_NothingPendingAfterFlush ==
    pc = "parsed" => part = SongPart /\ last_chords = <<>>

\* C3 as stated: every part in Song.parts has at least one line.
C3_EveryPartHasALine ==
    song # None => \A i \in 1..Len(song.parts) : song.parts[i].lines # <<>>

\* C3 as the code has it: on a blank line or the final flush in BODY, a
\* current part with a non-empty name and zero lines IS appended to
\* Song.parts, with the pending chords (if any) as its only line; the parts
\* of Song.parts that have no line are the named ones.
C3_NamedPartWithoutLinesIsCommitted ==
    /\ [](song # None =>
            \A i \in 1..Len(song.parts) :
                song.parts[i].lines = <<>> => song.parts[i].name # <<>>)
    /\ [][(/\ ParseStep
           /\ state = "BODY"
           /\ IsBlank(StepLine)
           /\ part.name # <<>>
           /\ part.lines = <<>>)
          => /\ song'.parts =
                  Append(song.parts,
                         [name  |-> part.name,
                          lines |-> IF last_chords = <<>> THEN <<>>
                                    ELSE <<SongLine(<<>>, last_chords)>>])
             /\ part' = SongPart
             /\ last_chords' = <<>>]_vars

\* A part with a name and no line at all is in Song.parts.
C3_Witness ==
    /\ song # None
    /\ \E i \in 1..Len(song.parts) :
          song.parts[i].name # <<>> /\ song.parts[i].lines = <<>>

\* C4: no SongPart in Song.parts is empty (each has a non-empty name or at
\* least one line), and a blank line in BODY while the current part is
\* empty leaves Song.parts unchanged.
C4_NoEmptyPartCommitted ==
    /\ [](song # None =>
            \A i \in 1..Len(song.parts) :
                song.parts[i].name # <<>> \/ song.parts[i].lines # <<>>)
    /\ [][(/\ ParseStep
           /\ state = "BODY"
           /\ IsBlank(StepLine)
           /\ part.name = <<>>
           /\ part.lines = <<>>)
          => song'.parts = song.parts]_vars

\* A part has been committed, and a blank line was then read in BODY while
\* the current part was empty.
C4_Witness ==
    /\ state = "BODY"
    /\ Len(song.parts) >= 1
    /\ part = SongPart
    /\ Len(file) >= 2
    /\ IsBlank(Fed(Len(file)))
    /\ IsBlank(Fed(Len(file) - 1))

\* Classes of lines, stated on the text alone.
IsChordOnly(line) == ~IsBlank(line) /\ is_chord_line(line)

IsLyric(line) == ~IsBlank(line) /\ ~is_chord_line(line)

EndsWithColon(line) == line # <<>> /\ line[Len(line)] = ":"

\* The text before the final colon of a line, leading whitespace dropped.
BeforeColon(line) == SubSeq(line, LeadingWs(line) + 1, Len(line) - 1)

\* The line is given to the third branch of parse_part: it is lyric text and
\* is not read as the name of a part that is still empty.
ReadAsLyric(line) ==
    IsLyric(line) /\ ~(part.name = <<>> /\ part.lines = <<>> /\ EndsWithColon(line))

\* C5: in BODY, a lyric line that directly follows a chord-only line yields
\* exactly one SongLine, with the raw lyric text and the tokenized chords of
\* the chord line, and leaves last_chords empty; a lyric line read while no
\* chords are pending yields a SongLine with empty chords.
C5_ChordLineThenLyric ==
    [][(ParseStep /\ state = "BODY" /\ ReadAsLyric(StepLine))
       => /\ last_chords' = <<>>
          /\ part'.name = part.name
          /\ song' = song
          /\ IF Len(file) >= 1 /\ IsChordOnly(Fed(Len(file)))
             THEN part'.lines =
                     Append(part.lines,
                            SongLine(StepLine, parse_chords(Fed(Len(file)))))
             ELSE last_chords = <<>>
                     => part'.lines = Append(part.lines, SongLine(StepLine, <<>>))]_vars

\* The last two lines read were a chord-only line and a lyric line, and the
\* current part ends with the SongLine pairing them.
C5_Witness ==
    /\ state = "BODY"
    /\ Len(file) >= 3
    /\ IsLyric(Fed(Len(file)))
    /\ IsChordOnly(Fed(Len(file) - 1))
    /\ part.lines # <<>>
    /\ part.lines[Len(part.lines)] =
          SongLine(Fed(Len(file)), parse_chords(Fed(Len(file) - 1)))
    /\ Len(part.lines[Len(part.lines)].chords) = 2
    /\ last_chords = <<>>

\* C6: two consecutive chord-only lines of the body followed by a lyric line
\* produce, in this order, a SongLine with text "" carrying the first line's
\* chords and a SongLine pairing the second line's chords with the lyric.
C6_TwoChordLinesThenLyric ==
    [][(/\ ParseStep
        /\ state = "BODY"
        /\ IsLyric(StepLine)
        /\ Len(file) >= 3
        /\ IsChordOnly(Fed(Len(file)))
        /\ IsChordOnly(Fed(Len(file) - 1))
        /\ \E i \in 1..(Len(file) - 2) : ~IsBlank(Fed(i)))
       => LET n == Len(part'.lines)
          IN  /\ n = Len(part.lines) + 1
              /\ n >= 2
              /\ SubSeq(part'.lines, 1, n - 1) = part.lines
              /\ part'.lines[n - 1] =
                    SongLine(<<>>, parse_chords(Fed(Len(file) - 1)))
              /\ part'.lines[n] =
                    SongLine(StepLine, parse_chords(Fed(Len(file))))
              /\ last_chords' = <<>>]_vars

\* Title, two different chord-only lines and a lyric line have been read.
C6_Witness ==
    /\ state = "BODY"
    /\ Len(file) = 4
    /\ IsLyric(Fed(4))
    /\ IsChordOnly(Fed(3))
    /\ IsChordOnly(Fed(2))
    /\ Fed(2) # Fed(3)
    /\ ~IsBlank(Fed(1))
    /\ Len(part.lines) = 2
    /\ part.lines[1].text = <<>>
    /\ part.lines[2].text = Fed(4)

\* Where ": " occurs in a line (one-based index of the colon).
ColonSpaceAt(line) ==
    {i \in 1..(Len(line) - 1) : line[i] = ":" /\ line[i + 1] = " "}

IsMetadataLine(line) == ColonSpaceAt(line) # {}

LastColonSpace(line) ==
    CHOOSE i \in ColonSpaceAt(line) : \A j \in ColonSpaceAt(line) : j <= i

MetadataKey(line) == SubSeq(line, LeadingWs(line) + 1, LastColonSpace(line) - 1)

MetadataValue(line) == SubSeq(line, LastColonSpace(line) + 2, Len(line))

\* C7: in DEFINITION, a non-blank line that is not metadata moves the parser
\* to BODY and is processed by parse_part in the same step: it becomes the
\* part name, the pending chords, or a lyric SongLine.  A metadata line
\* records metadata[key] = value and keeps the parser in DEFINITION.
C7_FirstBodyLineIsProcessed ==
    [][(ParseStep /\ state = "DEFINITION" /\ ~IsBlank(StepLine))
       => IF IsMetadataLine(StepLine)
          THEN /\ state' = "DEFINITION"
               /\ MetadataKey(StepLine) \in DOMAIN song'.metadata
               /\ song'.metadata[MetadataKey(StepLine)] = MetadataValue(StepLine)
               /\ DOMAIN song'.metadata =
                     (DOMAIN song.metadata) \cup {MetadataKey(StepLine)}
               /\ \A k \in (DOMAIN song.metadata) \ {MetadataKey(StepLine)} :
                     song'.metadata[k] = song.metadata[k]
               /\ song'.title = song.title
               /\ song'.parts = song.parts
               /\ part' = part
               /\ last_chords' = last_chords
          ELSE /\ state' = "BODY"
               /\ song' = song
               /\ CASE EndsWithColon(StepLine) ->
                          /\ part' = [name |-> BeforeColon(StepLine), lines |-> <<>>]
                          /\ last_chords' = <<>>
                    [] ~EndsWithColon(StepLine) /\ is_chord_line(StepLine) ->
                          /\ part' = SongPart
                          /\ last_chords' = parse_chords(StepLine)
                          /\ last_chords' # <<>>
                    [] OTHER ->
                          /\ part' = [name  |-> <<>>,
                                      lines |-> <<SongLine(StepLine, <<>>)>>]
                          /\ last_chords' = <<>>]_vars

\* A title, a metadata line and a first body line have been read, and the
\* body line is in the current part.
C7_Witness ==
    /\ state = "BODY"
    /\ Len(file) = 3
    /\ DOMAIN song.metadata # {}
    /\ part.lines = <<SongLine(Fed(3), <<>>)>>

\* t is line without its leading and trailing whitespace, and is not empty.
IsTrimOf(t, line) ==
    /\ t # <<>>
    /\ t[1] \notin Whitespace
    /\ t[Len(t)] \notin Whitespace
    /\ \E a \in 0..Len(line) :
          /\ a + Len(t) <= Len(line)
          /\ SubSeq(line, a + 1, a + Len(t)) = t
          /\ IsBlank(SubSeq(line, 1, a))
          /\ IsBlank(SubSeq(line, a + Len(t) + 1, Len(line)))

FirstNonBlankFed == CHOOSE i \in NonBlankFed : \A j \in NonBlankFed : i <= j

\* C8: while only blank lines have been read the parser is in START with no
\* Song; otherwise the title is the first non-blank line read, without its
\* surrounding whitespace, and is not empty.  The title is thus fixed by the
\* first non-blank line and no later line changes it.
C8_TitleIsFirstNonBlankLine ==
    IF NonBlankFed = {}
    THEN state = "START" /\ song = None
    ELSE /\ state # "START"
         /\ song # None
         /\ IsTrimOf(song.title, Fed(FirstNonBlankFed))

\* Blank lines came first, the title line had surrounding whitespace, and
\* more lines and the final empty line followed it.
C8_Witness ==
    /\ pc = "parsed"
    /\ state = "BODY"
    /\ NonBlankFed # {}
    /\ FirstNonBlankFed = 2
    /\ Len(song.title) + 2 = Len(Fed(2))
    /\ Len(file) = 4

\* The content of the line ends with a colon, whitespace may follow it.
ContentEndsWithColon(line) == EndsWithColon(strip(line))

\* C9: in BODY with an empty current part, a line whose content ends with a
\* colon, optionally followed by trailing whitespace, sets the part's name to
\* the text before the colon and adds no SongLine and no pending chords; with
\* a current part that is not empty such a line is never taken as a name.
C9_PartNameLine ==
    [][(ParseStep /\ state = "BODY" /\ ContentEndsWithColon(StepLine))
       => IF part.name = <<>> /\ part.lines = <<>>
          THEN /\ part'.name = DropLast(strip(StepLine))
               /\ part'.lines = part.lines
               /\ last_chords' = last_chords
          ELSE part'.name = part.name]_vars

\* C10: when the input holds no non-blank line, no Song is constructed and
\* the run ends in a distinct reported failure, neither in output nor in an
\* incidental fault.
C10_EmptyInputIsReported ==
    (pc = "done" /\ \A i \in 1..Len(file) : IsBlank(file[i]))
        => song = None /\ outcome \notin {"written", "AttributeError"}

----------------------------------------------------------------------------
(* The later properties *)

\* A raw line of the file without its line terminator, if it has one.
WithoutTerminator(raw) == IF Terminated(raw) THEN DropLast(raw) ELSE raw

\* C11: parse gives parse_line every line of the file, in order, with
\* exactly its line terminator removed and no other character removed (also
\* a last line that has no newline), and then exactly one empty string.
C11_LinesFedWithoutTerminator ==
    /\ Len(fed) = Len(file) + (IF pc = "loop" THEN 0 ELSE 1)
    /\ \A i \in 1..Len(file) : fed[i] = WithoutTerminator(file[i])
    /\ pc # "loop" => fed[Len(fed)] = <<>>

\* The chord grammar of the specification, read from the left: what can
\* remain of a token after one of the literals, and after an optional one.
Rest(S, lits) ==
    {SubSeq(q[1], Len(q[2]) + 1, Len(q[1])) :
        q \in {r \in S \X lits :
                  /\ Len(r[2]) <= Len(r[1])
                  /\ SubSeq(r[1], 1, Len(r[2])) = r[2]}}

OptRest(S, lits) == S \cup Rest(S, lits)

RECURSIVE RestAfterGroups(_)
RestAfterGroups(S) ==
    LET T == S \cup OptRest(OptRest(OptRest(S, SusAdd), Accidentals), Intervals)
    IN  IF T = S THEN S ELSE RestAfterGroups(T)

\* root, accidental?, quality?, (sus|add? accidental? interval?)*, suffix?,
\* (/ root accidental?)?, and nothing after it.
InGrammar(token) ==
    LET afterQuality == OptRest(OptRest(Rest({token}, Roots), Accidentals), Qualities)
        afterSuffix  == OptRest(RestAfterGroups(afterQuality), Suffixes)
        afterBass    == afterSuffix
                          \cup OptRest(Rest(Rest(afterSuffix, Slash), Roots), Accidentals)
    IN  <<>> \in afterBass

\* C12 as stated: the chord recognizer accepts exactly the tokens of the
\* chord grammar, anchored at both ends: true for C, Am, G#sus4, D/F#, Bbmaj7
\* and Eaug, false for the empty token and for H, Cx, 123 and C##.
C12_RecognizerAsStated ==
    (call.fn = "MatchesChord" /\ ret.done)
        => /\ ret.value = InGrammar(call.arg)
           /\ call.arg \in ValidExamples => ret.value = TRUE
           /\ call.arg \in InvalidExamples => ret.value = FALSE

DoubleSharp == <<"C", "#", "#">>

\* C12 as the code has it: the recognizer accepts exactly the tokens of the
\* chord grammar, anchored at both ends: true for C, Am, G#sus4, D/F#, Bbmaj7
\* and Eaug, false for the empty token and for H, Cx and 123; C## is a token
\* of the grammar (root, accidental, and a group made of an accidental alone)
\* and is accepted.
C12_RecognizerMatchesGrammar ==
    (call.fn = "MatchesChord" /\ ret.done)
        => /\ ret.value = InGrammar(call.arg)
           /\ call.arg \in ValidExamples \cup {DoubleSharp} => ret.value = TRUE
           /\ call.arg \in InvalidExamples \ {DoubleSharp} => ret.value = FALSE

\* The recognizer has accepted C##.
C12_Witness ==
    /\ call.fn = "MatchesChord"
    /\ ret.done
    /\ call.arg = DoubleSharp
    /\ ret.value = TRUE

\* The maximal runs of characters other than the space in a line, each as
\* <<first, last>> (one-based).
RunSpans(line) ==
    {sp \in (1..Len(line)) \X (1..Len(line)) :
        /\ sp[1] <= sp[2]
        /\ \A i \in sp[1]..sp[2] : line[i] # " "
        /\ sp[1] = 1 \/ line[sp[1] - 1] = " "
        /\ sp[2] = Len(line) \/ line[sp[2] + 1] = " "}

Run(line, sp) == SubSeq(line, sp[1], sp[2])

\* C13: is_chord_line(line) is true exactly when every non-empty token got by
\* splitting the line on single spaces passes the chord recognizer: true for
\* the empty line and for a line of spaces only, false as soon as one
\* non-empty token is not a chord.
C13_ChordLineIffAllTokensAreChords ==
    (call.fn = "is_chord_line" /\ ret.done)
        => /\ ret.value = (\A sp \in RunSpans(call.arg) : InGrammar(Run(call.arg, sp)))
           /\ (\A i \in 1..Len(call.arg) : call.arg[i] = " ") => ret.value = TRUE
           /\ (\E sp \in RunSpans(call.arg) : ~InGrammar(Run(call.arg, sp)))
                 => ret.value = FALSE

\* is_chord_line has accepted a line of two chords that two spaces separate.
C13_Witness ==
    /\ call.fn = "is_chord_line"
    /\ ret.done
    /\ call.arg = <<"C", " ", " ", "C">>
    /\ ret.value = TRUE

NonEmptyWord(w) == w # <<>>

\* C14: parse_chords(line) returns, left to right, one chord per maximal run
\* of non-space characters, with the run as its name and the zero-based
\* offset of the run's first character as its pos; the names are the
\* non-empty tokens of line.split(' ') and the positions strictly increase.
C14_OneChordPerRun ==
    (call.fn = "parse_chords" /\ ret.done)
        => LET line   == call.arg
               chords == ret.value
           IN  /\ Len(chords) = Cardinality(RunSpans(line))
               /\ \A sp \in RunSpans(line) :
                     \E i \in 1..Len(chords) :
                        chords[i] = [name |-> Run(line, sp), pos |-> sp[1] - 1]
               /\ \A i \in 1..Len(chords) : \A j \in 1..Len(chords) :
                     i < j => chords[i].pos < chords[j].pos
               /\ [i \in 1..Len(chords) |-> chords[i].name]
                     = SelectSeq(split(line), NonEmptyWord)

\* parse_chords has returned two chords, the second at column 3.
C14_Witness ==
    /\ call.fn = "parse_chords"
    /\ ret.done
    /\ call.arg = <<"C", " ", " ", "C">>
    /\ ret.value = <<[name |-> <<"C">>, pos |-> 0], [name |-> <<"C">>, pos |-> 3]>>

\* The lyric text of a SongLine, padded with spaces up to its rightmost
\* chord position when it is shorter.
RightmostPos(l) ==
    CHOOSE m \in {l.chords[i].pos : i \in 1..Len(l.chords)} :
        \A i \in 1..Len(l.chords) : l.chords[i].pos <= m

Padded(l) ==
    IF RightmostPos(l) > Len(l.text)
    THEN l.text \o Spaces(RightmostPos(l) - Len(l.text))
    ELSE l.text

\* The padded text from column from on, with the marker of each chord (taken
\* in ascending pos order) put before column pos.
RECURSIVE Overlay(_, _, _)
Overlay(padded, chords, from) ==
    IF chords = <<>> THEN Slice(padded, from, Len(padded))
    ELSE Slice(padded, from, Head(chords).pos)
            \o Marker(Head(chords).name)
            \o Overlay(padded, Tail(chords), Head(chords).pos)

\* A string with every \[...] marker removed.
RECURSIVE StripMarkers(_)
StripMarkers(str) ==
    IF str = <<>> THEN <<>>
    ELSE IF Len(str) >= 2 /\ str[1] = "\\" /\ str[2] = "["
              /\ \E i \in 3..Len(str) : str[i] = "]"
    THEN LET close == CHOOSE i \in 3..Len(str) :
                         str[i] = "]" /\ \A j \in 3..(i - 1) : str[j] # "]"
         IN  StripMarkers(SubSeq(str, close + 1, Len(str)))
    ELSE <<Head(str)>> \o StripMarkers(Tail(str))

\* C15 as stated: for any SongLine with chords, the LaTeX line with its
\* markers removed is the padded lyric text, and each chord's marker stands
\* just before column pos of the padded text, in ascending pos order.
C15_MarkersOverlayAsStated ==
    (call.fn = "SongLine.to_latex" /\ ret.done /\ call.arg.chords # <<>>)
        => LET latex == DropLast(ret.value)
           IN  /\ ret.value = latex \o <<NL>>
               /\ StripMarkers(latex) = Padded(call.arg)
               /\ latex = Overlay(Padded(call.arg), call.arg.chords, 0)

\* What to_latex returns without its newline and, for a SongLine with empty
\* text, without the \nolyrics{ } around it.
Overlaid(l, latex) ==
    IF l.text = <<>>
    THEN SubSeq(latex, Len(NoLyricsOpen) + 1, Len(latex) - 2)
    ELSE DropLast(latex)

\* C15 as the code has it: the statement holds of the LaTeX line of a SongLine
\* with chords and non-empty text; for a SongLine with chords and empty text
\* it holds of what stands between \nolyrics{ and } in the LaTeX line.
C15_MarkersOverlay ==
    (call.fn = "SongLine.to_latex" /\ ret.done /\ call.arg.chords # <<>>)
        => LET l    == call.arg
               body == Overlaid(l, ret.value)
           IN  /\ ret.value = (IF l.text = <<>>
                               THEN NoLyricsOpen \o body \o <<"}", NL>>
                               ELSE body \o <<NL>>)
               /\ StripMarkers(body) = Padded(l)
               /\ body = Overlay(Padded(l), l.chords, 0)

\* A one-letter text with chords at columns 0 and 2 has been rendered.
C15_Witness ==
    /\ call.fn = "SongLine.to_latex"
    /\ ret.done
    /\ call.arg = SongLine(<<"a">>, <<SongChord(<<"C">>, 0), SongChord(<<"C", "m">>, 2)>>)
    /\ ret.value = <<"\\", "[", "C", "]", "a", " ", "\\", "[", "C", "m", "]", "\n">>

StartsWith(str, prefix) ==
    Len(str) >= Len(prefix) /\ SubSeq(str, 1, Len(prefix)) = prefix

EndsWith(str, suffix) ==
    Len(str) >= Len(suffix)
        /\ SubSeq(str, Len(str) - Len(suffix) + 1, Len(str)) = suffix

\* "verse " followed by digits and nothing else.
IsVerseAndDigits(lower_name) ==
    /\ Len(lower_name) > Len(VersePrefix)
    /\ SubSeq(lower_name, 1, Len(VersePrefix)) = VersePrefix
    /\ \A i \in (Len(VersePrefix) + 1)..Len(lower_name) : lower_name[i] \in Digits

\* C16: a part is wrapped in \beginchorus/\endchorus exactly when its name is
\* "chorus" ignoring case, in \beginverse/\endverse exactly when its name is
\* "verse " followed by digits ignoring case, and for any other name in
\* \beginverse*/\endverse with a bold label line carrying the name.
C16_WrapperFollowsName ==
    (call.fn = "SongPart.to_latex" /\ ret.done)
        => LET name     == call.arg.name
               latex    == ret.value
               isChorus == Lower(name) = <<"c", "h", "o", "r", "u", "s">>
               isVerse  == IsVerseAndDigits(Lower(name))
           IN  /\ (StartsWith(latex, BeginChorus) /\ EndsWith(latex, EndChorus))
                    <=> isChorus
               /\ (StartsWith(latex, BeginVerse) /\ EndsWith(latex, EndVerse))
                    <=> isVerse
               /\ (~isChorus /\ ~isVerse)
                    => /\ StartsWith(latex, BeginVerseStar \o NameLabel(name))
                       /\ EndsWith(latex, EndVerse)

\* C17: chords never cross a blank line.  When a lyric line is read in BODY
\* while chords are pending, the chords it gets were read from a chord-only
\* line with no blank line between that line and the lyric line.
C17_ChordsNeverCrossBlankLine ==
    [][(ParseStep /\ state = "BODY" /\ ReadAsLyric(StepLine) /\ last_chords # <<>>)
       => \E i \in 1..Len(file) :
             /\ i > FirstNonBlankFed
             /\ IsChordOnly(Fed(i))
             /\ parse_chords(Fed(i)) = last_chords
             /\ \A j \in (i + 1)..Len(file) : ~IsBlank(Fed(j))]_vars

\* A SongLine with something on it.
HasTextOrChords(l) == l.text # <<>> \/ l.chords # <<>>

\* C18: every SongLine in the song and in the current part has non-empty
\* text or non-empty chords, and a non-blank line read as a chord line in
\* BODY leaves at least one chord pending, the chords of that line.
C18_NoSongLineIsBare ==
    /\ [](/\ \A i \in 1..Len(part.lines) : HasTextOrChords(part.lines[i])
          /\ song # None =>
                \A i \in 1..Len(song.parts) :
                    \A k \in 1..Len(song.parts[i].lines) :
                        HasTextOrChords(song.parts[i].lines[k]))
    /\ [][(ParseStep /\ state = "BODY" /\ IsChordOnly(StepLine))
          => /\ last_chords' # <<>>
             /\ last_chords' = parse_chords(StepLine)]_vars

\* A part has been committed whose last SongLine holds chords and no text,
\* after a lyric line with no chords.
C18_Witness ==
    /\ song # None
    /\ \E i \in 1..Len(song.parts) :
          LET lines == song.parts[i].lines
          IN  /\ Len(lines) >= 2
              /\ lines[Len(lines)].text = <<>>
              /\ lines[Len(lines)].chords # <<>>
              /\ lines[1].text # <<>>
              /\ lines[1].chords = <<>>

\* C19: Song.parts is append-only and committed parts are frozen.  A step
\* leaves every part of Song.parts as it is, name, lines and chords, and
\* adds at most one part, at the end: the part that was being built, with
\* its name and its lines.
C19_CommittedPartsAreFrozen ==
    [][song # None
       => /\ song' # None
          /\ Len(song'.parts) \in {Len(song.parts), Len(song.parts) + 1}
          /\ SubSeq(song'.parts, 1, Len(song.parts)) = song.parts
          /\ Len(song'.parts) = Len(song.parts) + 1
                => LET new == song'.parts[Len(song'.parts)]
                   IN  /\ new.name = part.name
                       /\ Len(new.lines) >= Len(part.lines)
                       /\ SubSeq(new.lines, 1, Len(part.lines)) = part.lines]_vars

\* A part has been committed whose SongLine was built while no chords were
\* pending, so that its chords list is the parser's pending buffer itself; a
\* chord-only line has since put its chords in last_chords, and the
\* committed SongLine still has no chords.
C19_Witness ==
    /\ Len(file) = 4
    /\ IsLyric(Fed(2))
    /\ IsBlank(Fed(3))
    /\ IsChordOnly(Fed(4))
    /\ song # None
    /\ song.parts = <<[name |-> <<>>, lines |-> <<SongLine(Fed(2), <<>>)>>]>>
    /\ last_chords = parse_chords(Fed(4))
    /\ last_chords # <<>>

\* The texts of the SongLines with non-empty text, in order.
RECURSIVE TextsOfLines(_)
TextsOfLines(lines) ==
    IF lines = <<>> THEN <<>>
    ELSE (IF Head(lines).text # <<>> THEN <<Head(lines).text>> ELSE <<>>)
            \o TextsOfLines(Tail(lines))

RECURSIVE TextsOfParts(_)
TextsOfParts(parts) ==
    IF parts = <<>> THEN <<>>
    ELSE TextsOfLines(Head(parts).lines) \o TextsOfParts(Tail(parts))

\* The lyric texts held so far: in Song.parts, then in the current part.
LyricTexts ==
    (IF song = None THEN <<>> ELSE TextsOfParts(song.parts))
        \o TextsOfLines(part.lines)

\* The line of the file that a step reads, as it stands in the file.
FileLine == IF file' # file THEN WithoutTerminator(file'[Len(file')]) ELSE <<>>

\* The line is a body line, not taken as a part name and not chord-only.
IsBodyLyric(line) ==
    /\ \/ state = "BODY"
       \/ state = "DEFINITION" /\ ~IsMetadataLine(line)
    /\ ReadAsLyric(line)

\* C20: lyric conservation.  Each body line of the file that is not blank,
\* not taken as a part name and not chord-only adds its text, unaltered, at
\* the end of the lyric texts, and no other line changes them; after the
\* final flush all of them are in Song.parts.
C20_LyricsConserved ==
    /\ [](pc = "parsed" => part.lines = <<>>)
    /\ [][ParseStep
          => LyricTexts' = IF IsBodyLyric(FileLine)
                           THEN Append(LyricTexts, FileLine)
                           ELSE LyricTexts]_vars

====
